---- MODULE Spec2Model ----
(***************************************************************************)
(* Bird feeder device: the monitoring loop (run), the event pipeline       *)
(* (process_motion_event), the camera and motion sensor backends and the   *)
(* classifier, as one sequential process over a clock and a filesystem.    *)
(*                                                                         *)
(* Two entry programs exist in the repository and both are modelled:       *)
(*   program = "main"    src/src/main.py        with src/src/camera.py     *)
(*   program = "device"  src/src/device/main.py with src/src/device/*.py   *)
(* Time is counted in ticks of 1/TicksPerSec second since                  *)
(* 2024-01-01T00:00:00; the sub-second part of a clock value plays the     *)
(* role of datetime's microsecond field.                                   *)
(***************************************************************************)
EXTENDS Integers, Sequences, FiniteSets, TLC

VARIABLES
    program,          \* which main.py is running
    platform,         \* platform.system(): "Windows" or "Linux"
    test_image_path,  \* self.test_image_path (NoPath when the flag is absent)
    boot,             \* clock value when the model starts
    now,              \* the wall clock: time.time() / datetime.now()
    pc,               \* position of the process
    exc,              \* the exception that ended the process, or "none"
    restarts,         \* how many times the process has been started again
    sensor,           \* the motion sensor object
    camera,           \* the camera object
    ev,               \* locals and fields of the process_motion_event in progress
    rec,              \* locals of the record_for_duration in progress
    sleep_until,      \* when time.sleep(1) returns
    fs,               \* the filesystem: path -> file content
    hist              \* observations of the run so far (never read by the program)

vars == <<program, platform, test_image_path, boot, now, pc, exc, restarts,
          sensor, camera, ev, rec, sleep_until, fs, hist>>

----------------------------------------------------------------------------
(* Bounds of the model *)

\* clock resolution: ticks per second
TicksPerSec == 2
\* the model stops the clock this many ticks after boot
MaxElapsed == 26
\* the process is started again at most this many times
MaxRestarts == 1
\* a recording holds at most this many frames (the clock decides first)
MaxFrames == 1
\* motion is seen at most this many times in one process
MaxEvents == 2
\* cleanup is called at most this many times on one camera object
MaxCleanups == 2

(* Program constants *)

\* WindowsMotionSensor.motion_interval, seconds
motion_interval == 5
\* time.sleep(1) in run()
PollSleep == 1
\* duration_seconds of main.py's record_for_duration call
ClipSecondsMain == 3
\* duration_seconds of device/main.py's record_for_duration call
ClipSecondsDevice == 10
\* thumbnail_size in detect_bird
ThumbSize == 224

----------------------------------------------------------------------------
(* Strings are sequences of chunks; a timestamp is one character per chunk *)

DigitChars == <<"0", "1", "2", "3", "4", "5", "6", "7", "8", "9">>

TwoDigits(n) == <<DigitChars[(n \div 10) + 1], DigitChars[(n % 10) + 1]>>

\* whole seconds of a clock value (strftime drops the sub-second part)
SecOf(t) == t \div TicksPerSec

DayOf(t) == 1 + (SecOf(t) \div 86400)
HourOf(t) == (SecOf(t) % 86400) \div 3600
MinuteOf(t) == (SecOf(t) % 3600) \div 60
SecondOf(t) == SecOf(t) % 60

\* strftime("%Y-%m-%d") (the model's clock stays within January 2024)
strftime_date(t) == <<"2", "0", "2", "4", "-", "0", "1", "-">> \o TwoDigits(DayOf(t))

\* a format that stops at the minute: strftime("%Y-%m-%dT%H:%M:00")
strftime_minute(t) ==
    strftime_date(t) \o <<"T">> \o TwoDigits(HourOf(t)) \o <<":">>
        \o TwoDigits(MinuteOf(t)) \o <<":", "0", "0">>

\* strftime("%Y-%m-%dT%H:%M:%S")
strftime_iso(t) ==
    strftime_date(t) \o <<"T">> \o TwoDigits(HourOf(t)) \o <<":">>
        \o TwoDigits(MinuteOf(t)) \o <<":">> \o TwoDigits(SecondOf(t))

\* strftime("%Y%m%d_%H%M%S") of device/camera.py
strftime_compact(t) ==
    <<"2", "0", "2", "4", "0", "1">> \o TwoDigits(DayOf(t)) \o <<"_">>
        \o TwoDigits(HourOf(t)) \o TwoDigits(MinuteOf(t)) \o TwoDigits(SecondOf(t))

\* the character class of sanitize_filename's pattern
InvalidChars == {"<", ">", ":", "\"", "/", "\\", "|", "?", "*"}

\* re.sub(r'[<>:"/\\|?*]', '_', filename)
sanitize_filename(filename) ==
    [i \in 1..Len(filename) |->
        IF filename[i] \in InvalidChars THEN "_" ELSE filename[i]]

----------------------------------------------------------------------------
(* Paths and the filesystem *)

\* a path is its parent directory and its file name, each a chunk sequence
Path(dir, name) == [dir |-> dir, name |-> name]

\* pathlib's  dir / name  for a one-component name
SubDir(dir, name) == dir \o <<"/">> \o name

\* no path: None
NoPath == Path(<<>>, <<>>)

\* self.base_dir = Path(__file__).parent / "data"
base_dir == <<"data">>

\* the test images of the repository's tests, and one that does not exist
FinchImage == Path(<<"tests", "/", "images">>, <<"finch", ".jpg">>)
CatImage == Path(<<"tests", "/", "images">>, <<"cat", ".jpg">>)
MissingImage == Path(<<"tests", "/", "images">>, <<"nothing", ".jpg">>)

TestImages == {FinchImage, CatImage, MissingImage}

\* ImageNet indices of the scenes in front of the camera: a brambling, a tabby cat
Scenes == {10, 281}

\* the frame size both camera backends ask for, <<width, height>>
FrameSize == <<1920, 1080>>

\* a file: what it holds (an image's or thumbnail's scene, a video's frame
\* count) and the width and height of its picture
File(kind, data) == [kind |-> kind, data |-> data, size |-> FrameSize]

\* a picture file of another size
Sized(f, size) == [f EXCEPT !.size = size]

\* the files that exist before the program starts
InitialFiles ==
    [p \in {FinchImage, CatImage} |->
        IF p = FinchImage THEN File("image", 10) ELSE File("image", 281)]

\* widths and heights of the test images a user may supply
ImageDims == {1, 100, 223, 224, 225, 1080, 1920, 3000}

\* the same files with a test image of a given size
FilesWithImageOf(size) ==
    [p \in DOMAIN InitialFiles |-> Sized(InitialFiles[p], size)]

Exists(files, p) == p \in DOMAIN files

\* writing a file creates it or replaces its content
WriteFile(files, p, f) ==
    [q \in (DOMAIN files) \cup {p} |-> IF q = p THEN f ELSE files[q]]

\* image_path.stem and image_path.suffix: the name without, and its, last chunk
Stem(p) == SubSeq(p.name, 1, Len(p.name) - 1)
Suffix(p) == <<p.name[Len(p.name)]>>

----------------------------------------------------------------------------
(* The classifier *)

\* BirdDetector.bird_class_indices
bird_class_indices ==
    {7, 8, 9, 10, 11, 12, 13, 14, 15, 16, 17, 18, 19, 21, 22, 23, 24, 80,
     81, 82, 83, 84, 85, 86, 87, 88, 89, 90, 91, 92, 93, 94, 95, 96, 97,
     98, 99, 100, 127, 128, 129, 130, 131, 132, 133, 134, 135, 136, 137,
     138, 139, 140, 141, 142, 143, 144, 145, 146, 448}

\* the decision as a test of the range the bird indices span
is_bird_range(predicted_class_idx) ==
    predicted_class_idx >= 7 /\ predicted_class_idx <= 448

\* is_bird = predicted_class_idx in self.bird_class_indices
is_bird(predicted_class_idx) == predicted_class_idx \in bird_class_indices

Abs(x) == IF x < 0 THEN -x ELSE x
Ceil(a, b) == (a + b - 1) \div b

\* a resize that always makes the longer side ThumbSize, enlarging small images
resize_to_fit(im_size, size) ==
    LET w == im_size[1]
        h == im_size[2]
    IN IF w >= h
       THEN <<size[1], IF (size[1] * h) \div w < 1 THEN 1 ELSE (size[1] * h) \div w>>
       ELSE <<IF (size[2] * w) \div h < 1 THEN 1 ELSE (size[2] * w) \div h, size[2]>>

\* thumbnail.thumbnail(thumbnail_size) on an image of im_size: an image that
\* fits in the box is left as it is; otherwise the side that binds becomes the
\* box's and the other is the floor or the ceiling of the scaled value,
\* whichever keeps the aspect ratio better (the floor on a tie), at least 1
thumbnail(im_size, size) ==
    LET w == im_size[1]
        h == im_size[2]
        x == size[1]
        y == size[2]
    IN IF x >= w /\ y >= h
       THEN im_size
       ELSE IF x * h >= w * y
            THEN \* x / y >= aspect: the height binds
                 LET f == (y * w) \div h
                     c == Ceil(y * w, h)
                     n == IF Abs(w * y - f * h) <= Abs(w * y - c * h) THEN f ELSE c
                 IN <<IF n < 1 THEN 1 ELSE n, y>>
            ELSE \* the width binds
                 LET f == (x * h) \div w
                     c == Ceil(x * h, w)
                     n == IF f = 0 THEN 0
                          ELSE IF Abs(w * f - x * h) * c <= Abs(w * c - x * h) * f
                               THEN f ELSE c
                 IN <<x, IF n < 1 THEN 1 ELSE n>>

\* the thumbnail file detect_bird saves of an image file
ThumbnailOf(image) ==
    Sized(File("thumb", image.data), thumbnail(image.size, <<ThumbSize, ThumbSize>>))

\* device/bird_detector.py: the thumbnail is written next to the image
thumbnail_path_device(image_path) ==
    Path(image_path.dir, Stem(image_path) \o <<"_thumb">> \o Suffix(image_path))

\* what a variable holding detect_bird's result counts as in `if bird_detected:`
\* (a non-empty tuple is true whatever it holds)
Truthy(v) == IF v.tuple THEN TRUE ELSE v.is_bird

----------------------------------------------------------------------------
(* The simulated motion sensor *)

\* the interval test with >= in place of >
IntervalReached(current_time, last_motion) ==
    current_time - last_motion >= motion_interval * TicksPerSec

\* WindowsMotionSensor.check_motion: the interval test (times in ticks)
IntervalElapsed(current_time, last_motion) ==
    current_time - last_motion > motion_interval * TicksPerSec

\* WindowsMotionSensor.check_motion; lucky is  random.random() < 0.9
WindowsCheckMotion(s, current_time, lucky) ==
    IF IntervalElapsed(current_time, s.last_motion) /\ lucky
    THEN [ret |-> TRUE, sensor |-> [s EXCEPT !.last_motion = current_time]]
    ELSE [ret |-> FALSE, sensor |-> s]

----------------------------------------------------------------------------
(* Initial state: the process is about to construct BirdFeederDevice *)

\* the clock value the model starts at: 23:59:57 on 2024-01-01
StartTimes == {86397 * TicksPerSec}

NoException == [type |-> "none", from |-> "none"]

NoSensor == [kind |-> "none", last_motion |-> 0]
\* a camera object: whether its device attribute (cap, camera) has been
\* assigned, whether the device is open, and how often it has been released
NoCamera == [kind |-> "none", handle |-> FALSE, opened |-> FALSE, released |-> 0]

\* the locals of process_motion_event before it has run
NoEvent ==
    [event_time |-> -1, date_dir |-> <<>>, timestamp |-> <<>>,
     image_path |-> NoPath,
     bird_detected |-> [tuple |-> FALSE, is_bird |-> FALSE],
     thumbnail_path |-> NoPath, video_path |-> NoPath]

NoRecording ==
    [end_time |-> 0, sink_open |-> FALSE, released |-> FALSE, frames |-> 0,
     path |-> NoPath]

\* what has been observed of one process: nothing yet
FreshProcess ==
    [polls |-> 0, trues |-> 0, runs |-> 0, ended |-> 0,
     constructed |-> -1, last_true |-> -1, prev_true |-> -1,
     captures |-> 0, classifies |-> 0, records |-> 0,
     decided |-> FALSE, positive |-> FALSE, failed |-> "none",
     outcome |-> "none", triggered |-> -1,
     sensor_attempts |-> 0, camera_attempts |-> 0, run_entered |-> FALSE,
     reads |-> 0, cleanups |-> 0, capture_calls |-> 0, capture_failures |-> 0]

Init ==
    /\ program \in {"main", "device"}
    /\ platform \in {"Windows", "Linux"}
    /\ test_image_path \in {NoPath} \cup TestImages
    /\ boot \in StartTimes
    /\ now = boot
    /\ pc = "create_motion_sensor"
    /\ exc = NoException
    /\ restarts = 0
    /\ sensor = NoSensor
    /\ camera = NoCamera
    /\ ev = NoEvent
    /\ rec = NoRecording
    /\ sleep_until = 0
    /\ fs = InitialFiles
    /\ hist = [p |-> FreshProcess, log |-> {}]

\* an exception nobody catches ends the process
Raise(type, from) ==
    /\ pc' = "crashed"
    /\ exc' = [type |-> type, from |-> from]

\* `if self.test_image_path:`
TestMode == test_image_path # NoPath

\* the program waits for the clock in time.sleep and in the recording loop
Waiting ==
    \/ pc = "sleep" /\ now < sleep_until
    \/ pc \in {"recording", "recording_pi"} /\ now < rec.end_time

\* time passes where the program waits for it
Tick ==
    /\ now - boot < MaxElapsed
    /\ Waiting
    /\ now' = now + 1
    /\ UNCHANGED <<program, platform, test_image_path, boot, pc, exc, restarts,
                   sensor, camera, ev, rec, sleep_until, fs, hist>>

----------------------------------------------------------------------------
(* BirdFeederDevice.__init__ *)

\* an __init__ that notes a component's failure and goes on without it
InitFailureLogged(type, from) ==
    /\ pc' = IF from = "create_motion_sensor" THEN "create_camera" ELSE "run"
    /\ exc' = [type |-> type, from |-> from]

\* __init__ has no handler: a component's constructor that raises ends
\* BirdFeederDevice(...) and main()
InitFailure(type, from) == Raise(type, from)

\* create_motion_sensor(): WindowsMotionSensor() or RaspberryPiMotionSensor(pin)
CreateMotionSensor ==
    /\ pc = "create_motion_sensor"
    /\ \/ /\ platform = "Windows"
          /\ sensor' = [kind |-> "Windows", last_motion |-> now]
          /\ pc' = "create_camera"
          /\ UNCHANGED exc
       \/ /\ platform = "Linux"
          /\ \E import_ok \in BOOLEAN :
                IF import_ok
                THEN /\ sensor' = [kind |-> "Pi", last_motion |-> 0]
                     /\ pc' = "create_camera"
                     /\ UNCHANGED exc
                ELSE /\ InitFailure("ImportError", "create_motion_sensor")
                     /\ UNCHANGED sensor
    /\ hist' = [hist EXCEPT !.p.constructed = now, !.p.sensor_attempts = @ + 1]
    /\ UNCHANGED <<program, platform, test_image_path, boot, now, restarts,
                   camera, ev, rec, sleep_until, fs>>

\* create_camera(): WindowsCamera() or RaspberryPiCamera(). The constructor
\* fails before the device attribute is assigned (the import fails, Picamera2()
\* raises), or after it (the webcam is not opened, configure or start raises),
\* or it opens the device
CreateCamera ==
    /\ pc = "create_camera"
    /\ LET kind == IF platform = "Windows" THEN "Windows" ELSE "Pi" IN
       \E outcome \in {"opened", "no_handle", "not_opened"} :
          CASE outcome = "opened" ->
                  /\ camera' = [kind |-> kind, handle |-> TRUE, opened |-> TRUE,
                                released |-> 0]
                  /\ pc' = "run"
                  /\ UNCHANGED exc
            [] outcome = "no_handle" ->
                  /\ camera' = [NoCamera EXCEPT !.kind = kind]
                  /\ InitFailure("ImportError", "create_camera")
            [] OTHER ->
                  /\ camera' = [NoCamera EXCEPT !.kind = kind, !.handle = TRUE]
                  /\ InitFailure("RuntimeError", "create_camera")
    /\ hist' = [hist EXCEPT !.p.camera_attempts = @ + 1]
    /\ UNCHANGED <<program, platform, test_image_path, boot, now, restarts,
                   sensor, ev, rec, sleep_until, fs>>

----------------------------------------------------------------------------
(* BirdFeederDevice.run *)

\* the observations of a process at the call of process_motion_event
CallPipeline(h) ==
    [h EXCEPT !.runs = @ + 1, !.captures = 0, !.classifies = 0, !.records = 0,
              !.decided = FALSE, !.positive = FALSE, !.failed = "none",
              !.outcome = "running", !.triggered = now]

\* run() is entered: one event in test mode, else the polling loop
RunEntry ==
    /\ pc = "run"
    /\ IF TestMode
       THEN /\ pc' = "process_motion_event"
            /\ hist' = [hist EXCEPT !.p = CallPipeline([@ EXCEPT !.run_entered = TRUE])]
       ELSE /\ pc' = "poll"
            /\ hist' = [hist EXCEPT !.p.run_entered = TRUE]
    /\ UNCHANGED <<program, platform, test_image_path, boot, now, exc, restarts,
                   sensor, camera, ev, rec, sleep_until, fs>>

\* a loop that kept polling from another thread while a clip is recorded
PollEnabledWhileRecording == pc \in {"poll", "recording"}

\* where run() calls self.motion_sensor.check_motion()
PollEnabled == pc = "poll"

\* the loop goes to time.sleep(1)
GoToSleep ==
    /\ pc' = "sleep"
    /\ sleep_until' = now + PollSleep * TicksPerSec

\* the observations of a process after a poll that returned ret
Polled(h, ret) ==
    IF ret
    THEN [h EXCEPT !.polls = @ + 1, !.trues = @ + 1,
                   !.prev_true = h.last_true, !.last_true = now]
    ELSE [h EXCEPT !.polls = @ + 1]

\* one iteration of `while True` up to the call of process_motion_event or sleep,
\* on the simulated sensor
PollSimulated ==
    /\ PollEnabled
    /\ sensor.kind = "Windows"
    /\ \E lucky \in BOOLEAN :
          LET r == WindowsCheckMotion(sensor, now, lucky) IN
          /\ r.ret => hist.p.trues < MaxEvents
          /\ sensor' = r.sensor
          /\ IF r.ret
             THEN /\ pc' = "process_motion_event"
                  /\ hist' = [hist EXCEPT !.p = CallPipeline(Polled(@, TRUE))]
                  /\ UNCHANGED sleep_until
             ELSE /\ GoToSleep
                  /\ hist' = [hist EXCEPT !.p = Polled(@, FALSE)]
    /\ UNCHANGED <<program, platform, test_image_path, boot, now, exc, restarts,
                   camera, ev, rec, fs>>

\* the same iteration on the GPIO sensor: the line reads high or low, or
\* GPIO.input raises
PollGpio ==
    /\ PollEnabled
    /\ sensor.kind = "Pi"
    /\ \E reading \in {"HIGH", "LOW", "error"} :
          CASE reading = "HIGH" ->
                  /\ hist.p.trues < MaxEvents
                  /\ pc' = "process_motion_event"
                  /\ hist' = [hist EXCEPT !.p = CallPipeline(Polled(@, TRUE))]
                  /\ UNCHANGED <<sleep_until, exc>>
            [] reading = "LOW" ->
                  /\ GoToSleep
                  /\ hist' = [hist EXCEPT !.p = Polled(@, FALSE)]
                  /\ UNCHANGED exc
            [] OTHER ->
                  /\ Raise("RuntimeError", "check_motion")
                  /\ hist' = [hist EXCEPT !.p.polls = @ + 1]
                  /\ UNCHANGED sleep_until
    /\ UNCHANGED <<program, platform, test_image_path, boot, now, restarts,
                   sensor, camera, ev, rec, fs>>

\* time.sleep(1) returns and the loop polls again
Wake ==
    /\ pc = "sleep"
    /\ now >= sleep_until
    /\ pc' = "poll"
    /\ UNCHANGED <<program, platform, test_image_path, boot, now, exc, restarts,
                   sensor, camera, ev, rec, sleep_until, fs, hist>>

----------------------------------------------------------------------------
(* process_motion_event: the event's time, directory and names *)

\* date_dir = self.base_dir / self.event_time.strftime("%Y-%m-%d")
date_dir_of(event_time) == SubDir(base_dir, strftime_date(event_time))

\* timestamp = sanitize_filename(event_time.strftime("%Y-%m-%dT%H:%M:%S"))
timestamp_of(event_time) == sanitize_filename(strftime_iso(event_time))

\* f"image_{timestamp}.jpg", f"thumb_{timestamp}.jpg", f"video_{timestamp}.mp4"
image_name(timestamp) == <<"image_">> \o timestamp \o <<".jpg">>
thumb_name(timestamp) == <<"thumb_">> \o timestamp \o <<".jpg">>
video_name(timestamp) == <<"video_">> \o timestamp \o <<".mp4">>

\* device/camera.py names its own files from the clock at the call
image_path_device(t) ==
    Path(SubDir(base_dir, strftime_date(t)), <<"image_">> \o strftime_compact(t) \o <<".png">>)
video_path_device(t) ==
    Path(SubDir(base_dir, strftime_date(t)), <<"video_">> \o strftime_compact(t) \o <<".mp4">>)

\* the exception classes `except (OSError, IOError)` matches
IsOSError(type) == type \in {"OSError", "IOError", "FileNotFoundError"}

\* process_motion_event returns to run(); h is what has been observed so far
ReturnFromEvent(h, outcome) ==
    /\ pc' = "returned"
    /\ hist' = [h EXCEPT !.p.outcome = outcome, !.p.ended = @ + 1]
    /\ UNCHANGED exc

\* an exception leaves process_motion_event and run()
RaiseFromEvent(h, type, from) ==
    /\ Raise(type, from)
    /\ hist' = [h EXCEPT !.p.outcome = "raised", !.p.ended = @ + 1,
                         !.p.failed = from]

\* an event time that is set by the first event only and then kept
kept_event_time(previous) == IF previous = -1 THEN now ELSE previous

\* self.event_time = datetime.now(): whatever the attribute held is replaced
new_event_time(previous) == now

\* the first lines of process_motion_event; ev.event_time is the attribute
\* self.event_time, the rest of ev are the locals
BeginEvent ==
    /\ pc = "process_motion_event"
    /\ pc' = "acquire"
    /\ IF program = "main"
       THEN LET t == new_event_time(ev.event_time) IN
            /\ ev' = [NoEvent EXCEPT !.event_time = t,
                                     !.date_dir = date_dir_of(t),
                                     !.timestamp = timestamp_of(t)]
            /\ hist' = [hist EXCEPT !.log = @ \cup
                          {[event_time |-> t,
                            image |-> Path(date_dir_of(t), image_name(timestamp_of(t))),
                            thumb |-> Path(date_dir_of(t), thumb_name(timestamp_of(t))),
                            video |-> Path(date_dir_of(t), video_name(timestamp_of(t)))]}]
       ELSE /\ ev' = NoEvent
            /\ UNCHANGED hist
    /\ UNCHANGED <<program, platform, test_image_path, boot, now, exc, restarts,
                   sensor, camera, rec, sleep_until, fs>>

----------------------------------------------------------------------------
(* process_motion_event: acquisition *)

\* the test image stands in for the camera
UseTestImage ==
    /\ pc = "acquire"
    /\ TestMode
    /\ IF program = "main"
       THEN IF ~Exists(fs, test_image_path)
            THEN \* logger.error(...); return
                 /\ ReturnFromEvent([hist EXCEPT !.p.failed = "test_image"], "abandoned")
                 /\ UNCHANGED <<ev, fs>>
            ELSE \E copied \in BOOLEAN :
                    IF copied
                    THEN \* shutil.copy2(image_path, date_dir / f"image_{timestamp}.jpg")
                         LET dst == Path(ev.date_dir, image_name(ev.timestamp)) IN
                         /\ fs' = WriteFile(fs, dst, fs[test_image_path])
                         /\ ev' = [ev EXCEPT !.image_path = dst]
                         /\ pc' = "classify"
                         /\ UNCHANGED <<exc, hist>>
                    ELSE \* except (OSError, IOError): return
                         /\ ReturnFromEvent([hist EXCEPT !.p.failed = "test_image"],
                                            "abandoned")
                         /\ UNCHANGED <<ev, fs>>
       ELSE \* device/main.py: image_path = Path(self.test_image_path)
            /\ ev' = [ev EXCEPT !.image_path = test_image_path]
            /\ pc' = "classify"
            /\ UNCHANGED <<exc, hist, fs>>
    /\ UNCHANGED <<program, platform, test_image_path, boot, now, restarts,
                   sensor, camera, rec, sleep_until>>

\* a pipeline that tries the capture again in the same run after it failed
CaptureRetried(h, type) ==
    /\ pc' = "acquire"
    /\ hist' = [h EXCEPT !.p.failed = "capture_image"]
    /\ UNCHANGED exc

\* a pipeline that goes on to the classifier after a capture that failed
CaptureFailedIgnored(h, type) ==
    /\ pc' = "classify"
    /\ hist' = [h EXCEPT !.p.failed = "capture_image"]
    /\ UNCHANGED exc

\* what process_motion_event does with an exception of capture_image:
\* main.py catches OSError and returns, device/main.py has no handler
CaptureFailed(h, type) ==
    IF program = "main" /\ IsOSError(type)
    THEN ReturnFromEvent([h EXCEPT !.p.failed = "capture_image"], "abandoned")
    ELSE RaiseFromEvent(h, type, "capture_image")

\* where capture_image writes: the caller's name, or device/camera.py's own
CapturePath ==
    IF program = "main"
    THEN Path(ev.date_dir, image_name(ev.timestamp))
    ELSE image_path_device(now)

\* a capture_image that makes the path and writes before it looks at ret, and
\* reads a second frame when the first read gave none
capture_image_write_first(files, image_path, ret, frame, written) ==
    [raised |-> ~ret,
     reads |-> IF ret THEN 1 ELSE 2,
     files |-> IF written
               THEN WriteFile(files, image_path, IF ret THEN frame ELSE File("image", 0))
               ELSE files]

\* WindowsCamera.capture_image: one cap.read(); without a frame RuntimeError is
\* raised before anything else is done; with one, cv2.imwrite writes it, or
\* fails to and says so only by its result, which is not looked at
capture_image(files, image_path, ret, frame, written) ==
    IF ~ret
    THEN [raised |-> TRUE, reads |-> 1, files |-> files]
    ELSE [raised |-> FALSE, reads |-> 1,
          files |-> IF written THEN WriteFile(files, image_path, frame) ELSE files]

\* self.camera.capture_image(...) on the webcam
CaptureImageWindows ==
    /\ pc = "acquire"
    /\ ~TestMode
    /\ camera.kind = "Windows"
    /\ \E ret \in BOOLEAN, scene \in Scenes, written \in BOOLEAN :
          LET r == capture_image(fs, CapturePath, ret, File("image", scene), written)
              h == [hist EXCEPT !.p.captures = @ + 1, !.p.reads = @ + r.reads,
                                !.p.capture_calls = @ + 1]
          IN /\ fs' = r.files
             /\ IF r.raised
                THEN /\ CaptureFailed([h EXCEPT !.p.capture_failures = @ + 1],
                                      "RuntimeError")
                     /\ UNCHANGED ev
                ELSE /\ ev' = [ev EXCEPT !.image_path = CapturePath]
                     /\ pc' = "classify"
                     /\ hist' = h
                     /\ UNCHANGED exc
    /\ UNCHANGED <<program, platform, test_image_path, boot, now, restarts,
                   sensor, camera, rec, sleep_until>>

\* self.camera.capture_image(...) on the camera module: capture_file writes
\* the still or raises
CaptureImagePi ==
    /\ pc = "acquire"
    /\ ~TestMode
    /\ camera.kind = "Pi"
    /\ LET h == [hist EXCEPT !.p.captures = @ + 1, !.p.capture_calls = @ + 1] IN
       \E result \in {"ok", "OSError", "RuntimeError"}, scene \in Scenes :
          IF result # "ok"
          THEN /\ CaptureFailed([h EXCEPT !.p.capture_failures = @ + 1], result)
               /\ UNCHANGED <<ev, fs>>
          ELSE /\ fs' = WriteFile(fs, CapturePath, File("image", scene))
               /\ ev' = [ev EXCEPT !.image_path = CapturePath]
               /\ pc' = "classify"
               /\ hist' = h
               /\ UNCHANGED exc
    /\ UNCHANGED <<program, platform, test_image_path, boot, now, restarts,
                   sensor, camera, rec, sleep_until>>

----------------------------------------------------------------------------
(* process_motion_event: classification and the decision *)

\* device/bird_detector.py detect_bird(image_path), for a predicted class
detect_bird_device(image_path, predicted_class_idx) ==
    IF is_bird(predicted_class_idx)
    THEN [is_bird |-> TRUE, thumbnail_path |-> thumbnail_path_device(image_path)]
    ELSE [is_bird |-> FALSE, thumbnail_path |-> NoPath]

\* the detect_bird(image_path, thumbnail_path, date_dir) main.py calls: the
\* decision, and the evidence artifact at the path it is given
detect_bird_main(thumbnail_path, predicted_class_idx) ==
    IF is_bird(predicted_class_idx)
    THEN [is_bird |-> TRUE, thumbnail_path |-> thumbnail_path]
    ELSE [is_bird |-> FALSE, thumbnail_path |-> NoPath]

\* main.py unpacks the pair into bird_detected, thumbnail_path;
\* device/main.py keeps the pair itself in bird_detected
Assigned(result) ==
    [tuple |-> (program = "device"), is_bird |-> result.is_bird]

\* self.bird_detector.detect_bird(...): neither program catches what it raises
Classify ==
    /\ pc = "classify"
    /\ LET h == [hist EXCEPT !.p.classifies = @ + 1] IN
       IF ~Exists(fs, ev.image_path)
       THEN \* Image.open(image_path) finds no file
            /\ RaiseFromEvent(h, "FileNotFoundError", "detect_bird")
            /\ UNCHANGED <<ev, fs>>
       ELSE \E scored \in BOOLEAN :
               IF ~scored
               THEN /\ RaiseFromEvent(h, "RuntimeError", "detect_bird")
                    /\ UNCHANGED <<ev, fs>>
               ELSE LET idx == fs[ev.image_path].data
                        r == IF program = "main"
                             THEN detect_bird_main(
                                      Path(ev.date_dir, thumb_name(ev.timestamp)), idx)
                             ELSE detect_bird_device(ev.image_path, idx)
                    IN /\ fs' = IF r.is_bird
                                THEN WriteFile(fs, r.thumbnail_path, ThumbnailOf(fs[ev.image_path]))
                                ELSE fs
                       /\ ev' = [ev EXCEPT !.bird_detected = Assigned(r),
                                           !.thumbnail_path = r.thumbnail_path]
                       /\ hist' = [h EXCEPT !.p.decided = TRUE,
                                            !.p.positive = r.is_bird]
                       /\ pc' = "gate"
                       /\ UNCHANGED exc
    /\ UNCHANGED <<program, platform, test_image_path, boot, now, restarts,
                   sensor, camera, rec, sleep_until>>

\* `if bird_detected:` ... `return bird_detected`
Gate ==
    /\ pc = "gate"
    /\ IF Truthy(ev.bird_detected)
       THEN /\ pc' = "record"
            /\ UNCHANGED <<exc, hist>>
       ELSE ReturnFromEvent(hist, "decision")
    /\ UNCHANGED <<program, platform, test_image_path, boot, now, restarts,
                   sensor, camera, ev, rec, sleep_until, fs>>

----------------------------------------------------------------------------
(* record_for_duration *)

\* where the clip goes: the caller's name, or device/camera.py's own
RecordPath ==
    IF program = "main"
    THEN Path(ev.date_dir, video_name(ev.timestamp))
    ELSE video_path_device(now)

\* duration_seconds of the call, in ticks
ClipTicks ==
    (IF program = "main" THEN ClipSecondsMain ELSE ClipSecondsDevice) * TicksPerSec

\* WindowsCamera.record_for_duration up to the loop: the VideoWriter is made
\* (it may fail to open without raising) and end_time is set
RecordOpenWindows ==
    /\ pc = "record"
    /\ camera.kind = "Windows"
    /\ LET h == [hist EXCEPT !.p.records = @ + 1] IN
       \E result \in {"opened", "not_opened", "error"} :
          IF result = "error"
          THEN /\ RaiseFromEvent(h, "RuntimeError", "record_for_duration")
               /\ UNCHANGED <<rec, fs>>
          ELSE /\ rec' = [end_time |-> now + ClipTicks,
                          sink_open |-> (result = "opened"), released |-> FALSE,
                          frames |-> 0, path |-> RecordPath]
               /\ fs' = IF result = "opened"
                        THEN WriteFile(fs, RecordPath, File("video", 0))
                        ELSE fs
               /\ pc' = "recording"
               /\ hist' = h
               /\ UNCHANGED exc
    /\ UNCHANGED <<program, platform, test_image_path, boot, now, restarts,
                   sensor, camera, ev, sleep_until>>

\* `while time.time() < end_time:`
LoopCondition == now < rec.end_time

\* one pass of the loop: a frame is read and written, or no frame ends the
\* loop, or cap.read() or out.write(frame) raises and the exception leaves
\* record_for_duration from inside the loop
RecordFrame ==
    /\ pc = "recording"
    /\ LoopCondition
    /\ \E read \in {"frame", "no_frame", "error"} :
          CASE read = "no_frame" ->
                  /\ pc' = "release"
                  /\ UNCHANGED <<rec, fs, exc, hist>>
            [] read = "frame" ->
                  /\ rec.frames < MaxFrames
                  /\ rec' = [rec EXCEPT !.frames = @ + 1]
                  /\ fs' = IF rec.sink_open
                           THEN WriteFile(fs, rec.path,
                                          File("video", fs[rec.path].data + 1))
                           ELSE fs
                  /\ UNCHANGED <<pc, exc, hist>>
            [] OTHER ->
                  /\ RaiseFromEvent(hist, "RuntimeError", "record_for_duration")
                  /\ UNCHANGED <<rec, fs>>
    /\ UNCHANGED <<program, platform, test_image_path, boot, now, restarts,
                   sensor, camera, ev, sleep_until>>

\* the loop ends because the duration has elapsed
RecordTimeUp ==
    /\ pc = "recording"
    /\ ~LoopCondition
    /\ pc' = "release"
    /\ UNCHANGED <<program, platform, test_image_path, boot, now, exc, restarts,
                   sensor, camera, ev, rec, sleep_until, fs, hist>>

\* out.release(); return video_path; and process_motion_event returns
RecordRelease ==
    /\ pc = "release"
    /\ rec' = [rec EXCEPT !.released = TRUE]
    /\ ev' = [ev EXCEPT !.video_path = rec.path]
    /\ ReturnFromEvent(hist, "decision")
    /\ UNCHANGED <<program, platform, test_image_path, boot, now, restarts,
                   sensor, camera, sleep_until, fs>>

\* RaspberryPiCamera.record_for_duration: start_recording, then sleep
RecordStartPi ==
    /\ pc = "record"
    /\ camera.kind = "Pi"
    /\ LET h == [hist EXCEPT !.p.records = @ + 1] IN
       \E started \in BOOLEAN :
          IF ~started
          THEN /\ RaiseFromEvent(h, "RuntimeError", "record_for_duration")
               /\ UNCHANGED <<rec, fs>>
          ELSE /\ rec' = [end_time |-> now + ClipTicks, sink_open |-> TRUE,
                          released |-> FALSE, frames |-> 0, path |-> RecordPath]
               /\ fs' = WriteFile(fs, RecordPath, File("video", 0))
               /\ pc' = "recording_pi"
               /\ hist' = h
               /\ UNCHANGED exc
    /\ UNCHANGED <<program, platform, test_image_path, boot, now, restarts,
                   sensor, camera, ev, sleep_until>>

\* time.sleep(duration_seconds) returns; stop_recording; return video_path
RecordStopPi ==
    /\ pc = "recording_pi"
    /\ now >= rec.end_time
    /\ rec' = [rec EXCEPT !.released = TRUE, !.frames = 1]
    /\ fs' = WriteFile(fs, rec.path, File("video", 1))
    /\ ev' = [ev EXCEPT !.video_path = rec.path]
    /\ ReturnFromEvent(hist, "decision")
    /\ UNCHANGED <<program, platform, test_image_path, boot, now, restarts,
                   sensor, camera, sleep_until>>

----------------------------------------------------------------------------
(* Back in run(), and the process as a whole *)

\* after process_motion_event: `return` in test mode, else time.sleep(1)
AfterEvent ==
    /\ pc = "returned"
    /\ IF TestMode
       THEN /\ pc' = "done"
            /\ UNCHANGED sleep_until
       ELSE GoToSleep
    /\ UNCHANGED <<program, platform, test_image_path, boot, now, exc, restarts,
                   sensor, camera, ev, rec, fs, hist>>

\* a single-shot run is repeated on the same machine with the same test image,
\* a moment to a second after the one before ended
Restart ==
    /\ TestMode
    /\ pc \in {"done", "crashed"}
    /\ restarts < MaxRestarts
    /\ restarts' = restarts + 1
    /\ \E gap \in 1..TicksPerSec :
          /\ now + gap - boot <= MaxElapsed
          /\ now' = now + gap
    /\ pc' = "create_motion_sensor"
    /\ exc' = NoException
    /\ sensor' = NoSensor
    /\ camera' = NoCamera
    /\ ev' = NoEvent
    /\ rec' = NoRecording
    /\ sleep_until' = 0
    /\ hist' = [hist EXCEPT !.p = FreshProcess]
    /\ UNCHANGED <<program, platform, test_image_path, boot, fs>>

Next ==
    \/ Tick
    \/ CreateMotionSensor
    \/ CreateCamera
    \/ RunEntry
    \/ PollSimulated
    \/ PollGpio
    \/ Wake
    \/ BeginEvent
    \/ UseTestImage
    \/ CaptureImageWindows
    \/ CaptureImagePi
    \/ Classify
    \/ Gate
    \/ RecordOpenWindows
    \/ RecordFrame
    \/ RecordTimeUp
    \/ RecordRelease
    \/ RecordStartPi
    \/ RecordStopPi
    \/ AfterEvent
    \/ Restart

Spec == Init /\ [][Next]_vars

\* single-shot runs on the image of a bird, of any width and height
InitThumb ==
    /\ program \in {"main", "device"}
    /\ platform \in {"Windows", "Linux"}
    /\ test_image_path = FinchImage
    /\ boot \in StartTimes
    /\ now = boot
    /\ pc = "create_motion_sensor"
    /\ exc = NoException
    /\ restarts = 0
    /\ sensor = NoSensor
    /\ camera = NoCamera
    /\ ev = NoEvent
    /\ rec = NoRecording
    /\ sleep_until = 0
    /\ \E w \in ImageDims, h \in ImageDims : fs = FilesWithImageOf(<<w, h>>)
    /\ hist = [p |-> FreshProcess, log |-> {}]

\* the steps of a single-shot run
NextSingleShot ==
    \/ Tick
    \/ CreateMotionSensor
    \/ CreateCamera
    \/ RunEntry
    \/ BeginEvent
    \/ UseTestImage
    \/ Classify
    \/ Gate
    \/ RecordOpenWindows
    \/ RecordFrame
    \/ RecordTimeUp
    \/ RecordRelease
    \/ RecordStartPi
    \/ RecordStopPi
    \/ AfterEvent

SpecThumb == InitThumb /\ [][NextSingleShot]_vars

----------------------------------------------------------------------------
(* cleanup: the program never calls it; a caller tears the camera object
   down when the process is over *)

\* the device is closed; closing a device that is not open does nothing
release(c) ==
    [c EXCEPT !.opened = FALSE, !.released = IF c.opened THEN @ + 1 ELSE @]

\* WindowsCamera.cleanup: `if hasattr(self, 'cap'): self.cap.release()`
CleanupWindows ==
    /\ pc \in {"done", "crashed"}
    /\ camera.kind = "Windows"
    /\ hist.p.cleanups < MaxCleanups
    /\ camera' = IF camera.handle THEN release(camera) ELSE camera
    /\ hist' = [hist EXCEPT !.p.cleanups = @ + 1]
    /\ UNCHANGED <<program, platform, test_image_path, boot, now, pc, exc, restarts,
                   sensor, ev, rec, sleep_until, fs>>

\* RaspberryPiCamera.cleanup: `self.camera.stop()`, whether or not the
\* attribute was ever assigned
CleanupPi ==
    /\ pc \in {"done", "crashed"}
    /\ camera.kind = "Pi"
    /\ hist.p.cleanups < MaxCleanups
    /\ IF camera.handle
       THEN /\ camera' = release(camera)
            /\ UNCHANGED exc
       ELSE /\ exc' = [type |-> "AttributeError", from |-> "cleanup"]
            /\ UNCHANGED camera
    /\ hist' = [hist EXCEPT !.p.cleanups = @ + 1]
    /\ UNCHANGED <<program, platform, test_image_path, boot, now, pc, restarts,
                   sensor, ev, rec, sleep_until, fs>>

\* single-shot runs, each followed by calls of cleanup
InitCleanup == Init /\ TestMode

NextCleanup ==
    \/ NextSingleShot
    \/ Restart
    \/ CleanupWindows
    \/ CleanupPi

SpecCleanup == InitCleanup /\ [][NextCleanup]_vars

----------------------------------------------------------------------------
(* The claims *)

\* run() was entered and ended by an exception
RunRaised ==
    pc = "crashed" /\ exc.from \notin {"create_motion_sensor", "create_camera"}

\* a file that holds something: an image of a scene, a clip with a frame
NonEmpty(files, p) == Exists(files, p) /\ files[p].data > 0

\* the paths of one logged event
ArtifactPaths(e) == {e.image, e.thumb, e.video}

\* a path directly under a date directory of the data directory
InEventDirectory(p) ==
    /\ Len(p.dir) = Len(base_dir) + 1 + 10
    /\ SubSeq(p.dir, 1, Len(base_dir) + 1) = base_dir \o <<"/">>

\* C1: loop resilience: when capture_image fails during an event,
\* process_motion_event returns without raising, so run() is not ended by it,
\* for every backend and every failure the backend raises
C1_CaptureFailureDoesNotEndRun ==
    hist.p.failed = "capture_image" => (pc # "crashed" /\ hist.p.outcome # "raised")

\* C2: partial-failure isolation: when record_for_duration fails after a
\* positive classification, process_motion_event returns normally and the
\* image and thumbnail of the event are still on disk
C2_RecordFailureIsolated ==
    (hist.p.failed = "record_for_duration" /\ hist.p.positive) =>
        /\ pc # "crashed"
        /\ Exists(fs, ev.image_path)
        /\ Exists(fs, ev.thumbnail_path)

\* C3: a classifier failure is event-scoped: process_motion_event abandons the
\* event without raising and records no video for it
C3_ClassifierFailureScoped ==
    hist.p.failed = "detect_bird" => (pc # "crashed" /\ hist.p.records = 0)

\* C4: decision gate: within one event record_for_duration is invoked iff the
\* classifier's decision is positive: never on a negative decision, exactly
\* once on a positive one
C4_DecisionGate ==
    /\ hist.p.records <= (IF hist.p.decided /\ hist.p.positive THEN 1 ELSE 0)
    /\ (pc = "returned" /\ hist.p.outcome = "decision" /\ hist.p.positive)
           => hist.p.records = 1

\* C5: events are never processed concurrently: at most one pipeline run is in
\* progress, and the sensor is not polled between the start of a pipeline run
\* and its completion by return or failure
C5_NoConcurrentEvents ==
    /\ [](hist.p.runs - hist.p.ended \in {0, 1})
    /\ [][hist.p.polls' # hist.p.polls => hist.p.runs = hist.p.ended]_vars

\* C5 witness: a clip is being recorded after several polls
C5_Witness == pc = "recording" /\ hist.p.polls > 1 /\ rec.frames > 0

\* C6: single-shot mode: run() invokes process_motion_event exactly once,
\* never polls the sensor, and then returns, whatever the outcome of the run
C6_SingleShotReturns ==
    TestMode =>
        /\ hist.p.polls = 0
        /\ hist.p.runs <= 1
        /\ (pc = "done" => hist.p.runs = 1)
        /\ ~RunRaised

\* C7: no mutation of the source fixture: in single-shot mode the test image
\* keeps its content, and every file written lies under the event directory
C7_FixtureUntouched ==
    TestMode =>
        /\ Exists(InitialFiles, test_image_path) =>
              /\ Exists(fs, test_image_path)
              /\ fs[test_image_path] = InitialFiles[test_image_path]
        /\ \A p \in (DOMAIN fs) \ (DOMAIN InitialFiles) : InEventDirectory(p)

\* C8: simulated sensor: two polls that return true are more than
\* motion_interval apart, and none is within motion_interval of construction
C8_MinimumInterval ==
    sensor.kind = "Windows" =>
        /\ hist.p.last_true # -1 =>
              hist.p.last_true - hist.p.constructed > motion_interval * TicksPerSec
        /\ hist.p.prev_true # -1 =>
              hist.p.last_true - hist.p.prev_true > motion_interval * TicksPerSec

\* C8 witness: the simulated sensor has returned true twice
C8_Witness == sensor.kind = "Windows" /\ hist.p.prev_true # -1

\* C9: when process_motion_event returns a decision, the event's image exists
\* and is non-empty, and on a positive decision so does its video
C9_ArtifactsExist ==
    (pc = "returned" /\ hist.p.outcome = "decision") =>
        /\ NonEmpty(fs, ev.image_path)
        /\ hist.p.positive => NonEmpty(fs, ev.video_path)

\* C10 as stated: two runs with distinct event_time values derive disjoint
\* image, thumbnail and video paths
C10_DistinctTimesDistinctPaths ==
    \A a, b \in hist.log :
        a.event_time # b.event_time => ArtifactPaths(a) \cap ArtifactPaths(b) = {}

\* C10 amended: two runs whose event_time values lie in different seconds
\* derive disjoint image, thumbnail and video paths
C10_DistinctSecondsDistinctPaths ==
    \A a, b \in hist.log :
        SecOf(a.event_time) # SecOf(b.event_time)
            => ArtifactPaths(a) \cap ArtifactPaths(b) = {}

\* C10 witness: two runs in different seconds have both written their image
C10_Witness ==
    \E a, b \in hist.log :
        /\ SecOf(a.event_time) # SecOf(b.event_time)
        /\ Exists(fs, a.image)
        /\ Exists(fs, b.image)

\* YYYY-MM-DDTHH:MM:SS of a time with every ":" replaced by "_" and every other
\* character as it is
UnderscoredIso(t) ==
    LET iso == strftime_iso(t)
    IN [i \in 1..Len(iso) |-> IF iso[i] = ":" THEN "_" ELSE iso[i]]

\* the paths the event in progress has asked a component to write or has been
\* handed back, by artifact
RequestedPaths ==
    [image |-> ev.image_path,
     thumb |-> ev.thumbnail_path,
     video |-> IF pc \in {"recording", "release", "recording_pi"}
               THEN rec.path ELSE ev.video_path]

\* C11: artifact layout: the image, thumbnail and video paths of one event lie
\* in base/<YYYY-MM-DD> of the event's single trigger time and are named
\* image_<ts>.jpg, thumb_<ts>.jpg and video_<ts>.mp4 with the one <ts> of that
\* time, also when the recording runs over a second or a day boundary
C11_ArtifactLayout ==
    (hist.p.triggered # -1 /\ pc # "process_motion_event") =>
        LET d == SubDir(base_dir, strftime_date(hist.p.triggered))
            ts == UnderscoredIso(hist.p.triggered)
            r == RequestedPaths
        IN /\ r.image # NoPath => r.image = Path(d, <<"image_">> \o ts \o <<".jpg">>)
           /\ r.thumb # NoPath => r.thumb = Path(d, <<"thumb_">> \o ts \o <<".jpg">>)
           /\ r.video # NoPath => r.video = Path(d, <<"video_">> \o ts \o <<".mp4">>)

\* C12: classifier contract: detect_bird is positive iff the predicted class
\* index is a bird index; on a positive decision it returns a thumbnail path
\* and has written the thumbnail there (and nothing else); on a negative one
\* it returns no path and writes no file
C12_ClassifierContract ==
    [][(pc = "classify" /\ pc' = "gate") =>
          LET idx == fs[ev.image_path].data
              positive == ev'.bird_detected.is_bird
              thumb == ev'.thumbnail_path
          IN /\ positive <=> idx \in bird_class_indices
             /\ positive =>
                   /\ thumb # NoPath
                   /\ Exists(fs', thumb) /\ fs'[thumb].kind = "thumb"
                   /\ \A q \in (DOMAIN fs') \ {thumb} : Exists(fs, q) /\ fs'[q] = fs[q]
             /\ ~positive => (thumb = NoPath /\ fs' = fs)]_vars

\* C12 witness: the older detector has returned a positive decision and its
\* thumbnail is on disk
C12_Witness ==
    /\ program = "device" /\ pc = "gate"
    /\ ev.bird_detected.is_bird
    /\ Exists(fs, ev.thumbnail_path)

Longer(size) == IF size[1] >= size[2] THEN size[1] ELSE size[2]
Shorter(size) == IF size[1] >= size[2] THEN size[2] ELSE size[1]

\* the thumbnail t is the source s scaled to a longer side of ThumbSize: same
\* orientation, the shorter side within rounding of the scaled value and >= 1
ScaledToThumbSize(s, t) ==
    /\ Longer(t) = ThumbSize
    /\ (s[1] >= s[2] => t[1] >= t[2]) /\ (s[2] >= s[1] => t[2] >= t[1])
    /\ Shorter(t) >= 1
    /\ Abs(Shorter(t) * Longer(s) - ThumbSize * Shorter(s)) < Longer(s)

\* detect_bird has just returned a positive decision for an image on disk
ThumbnailSaved ==
    /\ pc = "gate" /\ ev.bird_detected.is_bird
    /\ Exists(fs, ev.image_path) /\ Exists(fs, ev.thumbnail_path)

\* C13 as stated: for every source size, also portrait and smaller than
\* ThumbSize in both dimensions, the thumbnail's longer side is ThumbSize and
\* its shorter side is the source's scaled by the same factor
C13_LongerSideIsThumbSize ==
    ThumbnailSaved =>
        ScaledToThumbSize(fs[ev.image_path].size, fs[ev.thumbnail_path].size)

\* C13 amended: a source with a side longer than ThumbSize is scaled down to
\* a longer side of ThumbSize; a source that fits in ThumbSize x ThumbSize
\* keeps its size
C13_ThumbnailGeometry ==
    ThumbnailSaved =>
        LET s == fs[ev.image_path].size
            t == fs[ev.thumbnail_path].size
        IN IF Longer(s) > ThumbSize THEN ScaledToThumbSize(s, t) ELSE t = s

\* C13 witness: a portrait image with a side of one pixel has its thumbnail
C13_Witness ==
    /\ ThumbnailSaved
    /\ fs[ev.image_path].size = <<1, 3000>>
    /\ fs[ev.thumbnail_path].size = <<1, ThumbSize>>

\* C14: sensor glitch tolerance: a failure raised by check_motion during one
\* poll does not end run(); the loop sleeps and polls again
C14_SensorGlitchTolerated ==
    exc.from = "check_motion" => pc # "crashed"

\* the construction of the sensor or of the camera has failed in this process
InitFailed == exc.from \in {"create_motion_sensor", "create_camera"}

\* C15: an initialization failure is fatal and not retried: each backend
\* constructor is attempted at most once per process, and once one has failed
\* the process has ended without entering run(), polling or running the pipeline
C15_InitFailureIsFatal ==
    /\ hist.p.sensor_attempts <= 1
    /\ hist.p.camera_attempts <= 1
    /\ InitFailed =>
          /\ pc = "crashed"
          /\ ~hist.p.run_entered
          /\ hist.p.polls = 0
          /\ hist.p.runs = 0
          /\ exc.from = "create_motion_sensor" => hist.p.camera_attempts = 0

\* C15 witness: the sensor was constructed and the camera's constructor failed
C15_Witness ==
    /\ exc.from = "create_camera"
    /\ sensor.kind # "none"
    /\ hist.p.camera_attempts = 1

\* C16: single-shot mode runs without hardware: with a test image configured
\* no sensor or camera backend is constructed and neither capture_image nor
\* record_for_duration is called, whatever the classification
C16_SingleShotWithoutHardware ==
    TestMode =>
        /\ hist.p.sensor_attempts = 0
        /\ hist.p.camera_attempts = 0
        /\ hist.p.captures = 0
        /\ hist.p.records = 0

\* record_for_duration is between the creation of its sink and its end
InRecordCall == pc \in {"recording", "release", "recording_pi"}

\* C17: record_for_duration finalizes its sink: a frame is appended only
\* while the call is in its loop and the clock is before start + duration, and
\* whenever a call that created a sink is over, by return or otherwise, the
\* sink has been released
C17_SinkReleasedOnEveryExit ==
    /\ []((rec.path # NoPath /\ ~InRecordCall) => rec.released)
    /\ [][(rec.path # NoPath /\ rec'.frames > rec.frames) =>
              (pc \in {"recording", "recording_pi"} /\ now <= rec.end_time)]_vars

\* C18: cleanup is safe and releases once: cleanup never raises, also on a
\* camera object whose constructor failed before the device was opened, and
\* after any number of cleanup calls on an opened camera the device has been
\* released exactly once
C18_CleanupSafeAndOnce ==
    /\ exc.from # "cleanup"
    /\ (hist.p.cleanups > 0 /\ hist.p.run_entered) => camera.released = 1

\* the stage of the pipeline a control point belongs to
Stage ==
    CASE pc \in {"process_motion_event", "acquire"} -> "Capturing"
      [] pc \in {"classify", "gate"} -> "Classifying"
      [] pc \in {"record", "recording", "release", "recording_pi"} -> "Recording"
      [] pc = "returned" -> "Done"
      [] pc = "crashed" /\ hist.p.outcome = "raised" -> "Done"
      [] OTHER -> "Idle"

\* the moves between stages: forward through the pipeline, to Done at the
\* first failure, and from Done back to Idle
StageMoves ==
    {<<"Idle", "Capturing">>, <<"Capturing", "Classifying">>,
     <<"Capturing", "Done">>, <<"Classifying", "Done">>,
     <<"Classifying", "Recording">>, <<"Recording", "Done">>,
     <<"Done", "Idle">>}

\* C19: stage ordering: a run goes Idle, Capturing, Classifying, then Done or
\* Recording and Done, leaving for Done at its first failure; the classifier
\* runs only after the event's image was acquired, recording only after the
\* classifier returned, each stage's operation at most once per run, and a
\* run starts only from Idle on a positive poll or a configured test image
C19_StageOrdering ==
    /\ [](/\ Stage = "Classifying" =>
                (ev.image_path # NoPath /\ hist.p.failed = "none")
          /\ Stage = "Recording" => hist.p.decided
          /\ hist.p.captures <= 1 /\ hist.p.classifies <= 1 /\ hist.p.records <= 1
          /\ hist.p.records = 1 => hist.p.classifies = 1)
    /\ [][/\ Stage' # Stage => <<Stage, Stage'>> \in StageMoves
          /\ hist'.p.runs = hist.p.runs + 1 =>
                /\ Stage = "Idle"
                /\ TestMode \/ hist'.p.trues = hist.p.trues + 1]_vars

\* C19 witness: a run in the polling loop has gone through capture,
\* classification and recording and has returned
C19_Witness ==
    /\ ~TestMode /\ pc = "returned" /\ hist.p.outcome = "decision"
    /\ hist.p.captures = 1 /\ hist.p.classifies = 1 /\ hist.p.records = 1
    /\ rec.released

\* the step in which the webcam's capture_image fails for want of a frame
NoFrameCapture ==
    /\ pc = "acquire" /\ camera.kind = "Windows"
    /\ hist'.p.captures = hist.p.captures + 1
    /\ pc' # "classify"

\* C20: a failed capture leaves no file: when the webcam yields no frame,
\* capture_image reads exactly one frame, writes nothing, and leaves the camera
\* handle as it was, open for the next event
C20_FailedCaptureLeavesNoFile ==
    [][NoFrameCapture =>
          /\ hist'.p.reads = hist.p.reads + 1
          /\ fs' = fs
          /\ camera' = camera /\ camera'.opened /\ camera'.released = 0]_vars

\* C20 witness: the first capture on the webcam has failed: one frame was
\* read, no file has been written and the camera is still open
C20_Witness ==
    /\ camera.kind = "Windows" /\ camera.opened
    /\ hist.p.failed = "capture_image"
    /\ hist.p.reads = 1
    /\ DOMAIN fs = DOMAIN InitialFiles

\* the step is a call of capture_image
CaptureCall == hist'.p.capture_calls = hist.p.capture_calls + 1

\* C21: no retry within an event: in one pipeline run capture_image, the
\* classifier and record_for_duration are each invoked at most once; a run
\* whose capture failed does nothing more, and every capture is the first of
\* its run, so the capture after a failed one belongs to a run started by a
\* later positive poll
C21_NoRetryWithinEvent ==
    /\ [](/\ hist.p.captures <= 1 /\ hist.p.classifies <= 1 /\ hist.p.records <= 1
          /\ hist.p.capture_calls <= hist.p.runs
          /\ ~TestMode => hist.p.capture_calls <= hist.p.trues
          /\ hist.p.failed = "capture_image" =>
                (Stage \in {"Done", "Idle"} /\ hist.p.classifies = 0 /\ hist.p.records = 0))
    /\ [][CaptureCall =>
              /\ hist.p.captures = 0 /\ hist.p.failed = "none"
              /\ hist.p.capture_calls < hist.p.runs
              /\ hist.p.last_true > hist.p.prev_true]_vars

\* C21 witness: after a capture that failed, a later positive poll has
\* started a second run and its capture has been made
C21_Witness ==
    /\ hist.p.capture_failures = 1
    /\ hist.p.runs = 2 /\ hist.p.trues = 2
    /\ hist.p.capture_calls = 2 /\ hist.p.captures = 1
    /\ pc = "classify"

\* the event was given up without raising and without classifier or camera
AbandonedQuietly ==
    /\ hist.p.outcome = "abandoned" /\ pc # "crashed"
    /\ hist.p.classifies = 0 /\ hist.p.captures = 0 /\ hist.p.records = 0

\* C22: a test-image acquisition failure abandons only that event: in
\* test-image mode, when the configured image does not exist or its copy into
\* the event directory fails, process_motion_event returns without raising
\* and invokes neither classifier nor camera; otherwise the classifier runs on
\* the copy in the event directory, never on the source path
C22_TestImageFailureAbandons ==
    TestMode =>
        /\ (~Exists(fs, test_image_path) /\ hist.p.runs = 1 /\ Stage # "Capturing")
              => AbandonedQuietly
        /\ hist.p.failed = "test_image" => AbandonedQuietly
        /\ Stage = "Classifying" =>
              (ev.image_path # test_image_path /\ InEventDirectory(ev.image_path))

\* C23 as stated: the number of pipeline runs started always equals the
\* number of polls that returned true
C23_RunsEqualTruePolls == hist.p.runs = hist.p.trues

\* C23 amended: motion during a pipeline run is lost, not queued: in the
\* polling loop the runs started equal the polls that returned true, a run is
\* started only by the step in which a poll returns true, from Idle with no
\* run open, and while a run executes nothing polls or starts a run; in
\* single-shot mode one run is started without any poll
C23_MotionNotQueued ==
    /\ [](IF TestMode
          THEN hist.p.trues = 0 /\ hist.p.polls = 0 /\ hist.p.runs <= 1
          ELSE hist.p.runs = hist.p.trues)
    /\ [][(~TestMode /\ hist'.p.runs = hist.p.runs + 1) =>
              /\ hist'.p.polls = hist.p.polls + 1
              /\ hist'.p.trues = hist.p.trues + 1
              /\ hist.p.runs = hist.p.ended
              /\ Stage = "Idle"]_vars
    /\ [][(Stage \in {"Capturing", "Classifying", "Recording"}) =>
              (hist'.p.runs = hist.p.runs /\ hist'.p.polls = hist.p.polls)]_vars

\* C23 witness: on the GPIO sensor a clip was recorded, a later poll read
\* low, and a still later one started the second run
C23_Witness ==
    /\ ~TestMode /\ sensor.kind = "Pi"
    /\ hist.p.runs = 2 /\ hist.p.trues = 2 /\ hist.p.polls > 2
    /\ rec.released

\* the attributes of the BirdFeederDevice object
Fields ==
    [base_dir |-> base_dir, test_image_path |-> test_image_path,
     motion_sensor |-> sensor, camera |-> camera,
     bird_detector |-> bird_class_indices, event_time |-> ev.event_time]

\* the attributes __init__ assigns
InitFields ==
    [base_dir |-> base_dir, test_image_path |-> test_image_path,
     motion_sensor |-> sensor, camera |-> camera,
     bird_detector |-> bird_class_indices]

\* control is inside process_motion_event
InEvent ==
    pc \in {"process_motion_event", "acquire", "classify", "gate", "record",
            "recording", "release", "recording_pi"}

\* C24 as stated: process_motion_event leaves every attribute of the
\* pipeline object unchanged
C24_NoFieldChanges == [][InEvent => Fields' = Fields]_vars

\* C24 amended: process_motion_event leaves every attribute __init__ assigned
\* unchanged; the one attribute it writes is event_time, at entry and before
\* it is read, so directory and timestamp of an event come from that event's
\* clock reading and never from an earlier event's
C24_OnlyEventTimeWritten ==
    [][InEvent =>
          /\ InitFields' = InitFields
          /\ ev'.event_time # ev.event_time => pc = "process_motion_event"
          /\ (pc = "process_motion_event" /\ program = "main") =>
                /\ ev'.event_time = now
                /\ ev'.date_dir = date_dir_of(now)
                /\ ev'.timestamp = timestamp_of(now)]_vars

\* C24 witness: the second event of a process has begun and event_time,
\* which held the first event's time, holds its own
C24_Witness ==
    /\ program = "main" /\ pc = "acquire"
    /\ hist.p.prev_true # -1
    /\ ev.event_time = hist.p.last_true
    /\ ev.event_time # hist.p.prev_true

====
